---- MODULE Spec2Model ----
(***************************************************************************)
(* VisionCore API: the access check of auth.py (get_current_user.verify),  *)
(* the feature catalog FEATURE_TIERS, the request handlers and the signup  *)
(* of main.py, the credit ledger and the demo_usage table of database.py,  *)
(* and the billing webhooks of webhook.py.                                 *)
(*                                                                         *)
(* The store (Supabase) is a set of tables.  Every select / insert /       *)
(* update is one atomic step that either succeeds or raises.  A handler    *)
(* that does several store calls is several steps, so that calls of        *)
(* different requests interleave between them.                             *)
(***************************************************************************)
EXTENDS Integers, Sequences, FiniteSets, TLC

\* ------------------------------------------------------------------ bounds
\* concurrent requests in flight
NProcs == 2
\* calls started in one behaviour
MaxCalls == 3

Procs == 1..NProcs

\* ------------------------------------------------------------- auth.py
\* auth.py:13-48.  Each entry is the list of tiers the feature is open to,
\* in the order the source writes it.
FEATURE_TIERS ==
    [f \in {"compress", "palette", "signature-rip", "auto-tag", "doc-scanner",
            "convert-format", "pixel-art"} |->
        <<"free", "basic", "pro", "enterprise">>]
    @@ [f \in {"upscale", "remove-bg", "portrait-mode", "sticker-maker",
               "tattoo-preview", "size-visualizer", "ocr", "pdf-builder"} |->
        <<"basic", "pro", "enterprise">>]
    @@ [f \in {"age-progression", "anime-style", "colorize", "instant-studio",
               "extend", "smart-classify"} |->
        <<"pro", "enterprise">>]
    @@ [f \in {"magic-fill", "magic-erase", "vectorize", "privacy-blur",
               "nsfw-check", "outfit-changer"} |->
        <<"enterprise">>]

\* auth.py:50
DEMO_LIMIT == 3

\* the tier names signup accepts (main.py:80), lowest first
Tiers == <<"free", "basic", "pro", "enterprise">>
TierSet == {Tiers[i] : i \in DOMAIN Tiers}

\* x in list (Python's `in` on a list)
InList(x, list) == \E i \in DOMAIN list : list[i] = x

\* auth.py:88  FEATURE_TIERS.get(endpoint_category, ["enterprise"])
allowed_tiers(endpoint_category) ==
    IF endpoint_category \in DOMAIN FEATURE_TIERS
    THEN FEATURE_TIERS[endpoint_category]
    ELSE <<"enterprise">>

\* a tier check that compares with the first listed tier only
has_direct_access_first_only(user_tier, endpoint_category) ==
    user_tier = allowed_tiers(endpoint_category)[1]

\* a tier check that lets only the last listed tier through
has_direct_access_last_only(user_tier, endpoint_category) ==
    user_tier = allowed_tiers(endpoint_category)[Len(allowed_tiers(endpoint_category))]

\* auth.py:89
has_direct_access(user_tier, endpoint_category) ==
    InList(user_tier, allowed_tiers(endpoint_category))

\* auth.py:81  the demo count verify consults for a key and a feature: the
\* demos_used column of the key's row, whatever the feature
demo_count(table, key, feature) == table[key].demos_used

\* a demo check that is off by one
demo_available_off_by_one(user_demos) == user_demos <= DEMO_LIMIT

\* auth.py:100  the demo branch is taken while user_demos < DEMO_LIMIT
demo_available(user_demos) == user_demos < DEMO_LIMIT

\* a remainder computed from the count before the increment
demos_left_after_stale(user_demos) == DEMO_LIMIT - user_demos

\* auth.py:108
demos_left_after(user_demos) == DEMO_LIMIT - (user_demos + 1)

\* The names str.upper() and str.lower() are applied to: the tier names of
\* the catalog, every plan name of credits_map (webhook.py:32-40) and a name
\* neither knows, each in lower case, in upper case and capitalised; and the
\* one-letter answers to the plan question of the admin script (admin.py:18).
CaseTable ==
    { <<"free", "FREE", "Free">>,
      <<"basic", "BASIC", "Basic">>,
      <<"starter", "STARTER", "Starter">>,
      <<"pro", "PRO", "Pro">>,
      <<"mega", "MEGA", "Mega">>,
      <<"ultra", "ULTRA", "Ultra">>,
      <<"enterprise", "ENTERPRISE", "Enterprise">>,
      <<"gold", "GOLD", "Gold">>,
      <<"a", "A", "A">>, <<"b", "B", "B">>, <<"c", "C", "C">>,
      <<"d", "D", "D">> }

\* the spellings of the name t
CaseRow(t) == CHOOSE r \in CaseTable : t \in {r[1], r[2], r[3]}

\* Python's str.upper(), on the names of CaseTable
Upper(t) == CaseRow(t)[2]

\* Python's str.lower(), on the names of CaseTable
Lower(t) == CaseRow(t)[1]

\* a prompt that names the last tier of the list
required_tier_last(endpoint_category) ==
    Upper(allowed_tiers(endpoint_category)[Len(allowed_tiers(endpoint_category))])

\* auth.py:115  the tier the 403 asks the caller to upgrade to:
\* allowed_tiers[0].upper()
required_tier(endpoint_category) == Upper(allowed_tiers(endpoint_category)[1])

\* ------------------------------------------------------------- main.py
\* main.py:212-404.  One record per image endpoint: the feature name its
\* handler passes to the access check, the tier its docstring names, and
\* whether the handler stamps a demo result (add_watermark).
Endpoints ==
    { [path |-> "/v1/compress",       feature |-> "compress",       doc_tier |-> "free",       stamps |-> FALSE],
      [path |-> "/v1/palette",        feature |-> "palette",        doc_tier |-> "free",       stamps |-> FALSE],
      [path |-> "/v1/signature-rip",  feature |-> "signature-rip",  doc_tier |-> "free",       stamps |-> FALSE],
      [path |-> "/v1/auto-tag",       feature |-> "auto-tag",       doc_tier |-> "free",       stamps |-> FALSE],
      [path |-> "/v1/upscale",        feature |-> "upscale",        doc_tier |-> "basic",      stamps |-> TRUE],
      [path |-> "/v1/remove-bg",      feature |-> "remove-bg",      doc_tier |-> "basic",      stamps |-> TRUE],
      [path |-> "/v1/portrait-mode",  feature |-> "portrait-mode",  doc_tier |-> "basic",      stamps |-> TRUE],
      [path |-> "/v1/sticker-maker",  feature |-> "sticker-maker",  doc_tier |-> "basic",      stamps |-> TRUE],
      [path |-> "/v1/colorize",       feature |-> "colorize",       doc_tier |-> "pro",        stamps |-> TRUE],
      [path |-> "/v1/anime",          feature |-> "anime",          doc_tier |-> "pro",        stamps |-> TRUE],
      [path |-> "/v1/instant-studio", feature |-> "instant-studio", doc_tier |-> "pro",        stamps |-> TRUE],
      [path |-> "/v1/extend",         feature |-> "extend",         doc_tier |-> "pro",        stamps |-> TRUE],
      [path |-> "/v1/magic-erase",    feature |-> "magic-erase",    doc_tier |-> "enterprise", stamps |-> FALSE],
      [path |-> "/v1/vectorize",      feature |-> "vectorize",      doc_tier |-> "enterprise", stamps |-> FALSE],
      [path |-> "/v1/privacy-blur",   feature |-> "privacy-blur",   doc_tier |-> "enterprise", stamps |-> FALSE] }

\* the feature names the handlers pass to the access check
HandlerFeatures == {e.feature : e \in Endpoints}

\* the handler that passes the feature name to the access check
EndpointOf(feature) == CHOOSE e \in Endpoints : e.feature = feature

\* the endpoints that run their service under process_with_timeout
\* (main.py:260, 274, 317, 377)
TimedPaths == {"/v1/upscale", "/v1/remove-bg", "/v1/colorize", "/v1/magic-erase"}

\* ---------------------------------------------------------------- state
VARIABLES
    api_keys,      \* table api_keys (auth.py, main.py): key -> row, or NoRow
    users,         \* table users (database.py): api_key -> row, or NoRow
    pc,            \* per request: where its handler stands
    call,          \* per request: the arguments and the locals of the handler
    outcome,       \* per request: what the last finished call returned or raised
    ncalls,        \* calls started so far
    demo_granted,  \* history: per key, the calls answered in demo mode so far
    cat,           \* the catalog lookup under SpecCatalog
    rapidapi_users,\* table rapidapi_users (webhook.py), rows in insertion order
    secret_set,    \* whether RAPIDAPI_WEBHOOK_SECRET is configured (webhook.py:10)
    response,      \* per request: what the endpoint handler sent back (main.py)
    demo_usage     \* table demo_usage (database.py), rows in insertion order

vars == <<api_keys, users, pc, call, outcome, ncalls, demo_granted, cat,
          rapidapi_users, secret_set, response, demo_usage>>

\* what the webhook handlers and the credit ledger own beside users
webhook_state == <<rapidapi_users, secret_set>>

\* The keys of the store.  Every signup (main.py:85-86), subscribe event
\* (webhook.py:25-28, 65) and run of the admin script (admin.py:4-5, 29)
\* generates a new random key, so MaxCalls calls need at most MaxCalls keys.
KeyNames == <<"k1", "k2", "k3", "k4", "k5", "k6">>
Keys == {KeyNames[i] : i \in 1..MaxCalls}

\* secrets.token_urlsafe / uuid4 (webhook.py:25-28, main.py:85-86,
\* admin.py:4-5): a key that differs from every key in `taken`, the keys that
\* have a row or are held by a call in flight.  The keys are opaque and no
\* step looks at a key's text, so the new key is the first unused name.
generate_api_key(taken) ==
    KeyNames[CHOOSE i \in 1..MaxCalls :
                /\ KeyNames[i] \notin taken
                /\ \A j \in 1..(i - 1) : KeyNames[j] \in taken]
\* no X-API-Key header (auth.py:61, Header(None))
NoKey == ""
NoRow == [absent |-> TRUE]

\* an api_keys row as signup writes it (main.py:94-102)
KeyRow(tier, active, demos_used) ==
    [tier |-> tier, active |-> active, demos_used |-> demos_used]

\* a users row as add_user writes it (database.py:34-39)
UserRow(plan, credits, total_calls) ==
    [plan_type |-> plan, credits |-> credits, total_calls |-> total_calls]

NoCall == [op |-> "none", key |-> NoKey, feature |-> "", user_tier |-> "",
           user_demos |-> 0, fetch |-> "none", update |-> "none",
           user_id |-> "", plan |-> "", amount |-> 0, credits |-> 0,
           total_calls |-> 0, sig_valid |-> FALSE, email |-> "",
           current |-> 0, returned |-> 0]
NoOutcome == [status |-> 0, detail |-> "", tier |-> "", key |-> NoKey,
              demo_mode |-> FALSE, demos_left |-> 0, upgrade_to |-> ""]

\* auth.py:119-124, and auth.py:66 for the keyless return
Returned(tier, key, demo_mode, demos_left) ==
    [status |-> 200, detail |-> "", tier |-> tier, key |-> key,
     demo_mode |-> demo_mode, demos_left |-> demos_left, upgrade_to |-> ""]

\* raise HTTPException(status, detail)
Raised(status, detail, upgrade_to) ==
    [status |-> status, detail |-> detail, tier |-> "", key |-> NoKey,
     demo_mode |-> FALSE, demos_left |-> 0, upgrade_to |-> upgrade_to]

\* an error handler that lets the caller through as a keyless free user
auth_db_error_open == Returned("free", NoKey, FALSE, 0)

\* auth.py:83-85  except Exception: raise HTTPException(500, ...)
auth_db_error == Raised(500, "Authentication Service Error", "")

\* the decision names of the specification, read off what verify returns
Decision(o) ==
    CASE o.status = 200 /\ o.demo_mode -> "GRANTED_DEMO"
      [] o.status = 200 /\ ~o.demo_mode -> "GRANTED_FULL"
      [] o.status = 403 /\ o.detail = "Access Denied" -> "DENIED_DEMO_EXHAUSTED"
      [] o.status = 429 -> "DENIED_NO_CREDIT"
      [] o.status = 401 -> "UNAUTHORIZED"
      [] o.status = 500 -> "SERVICE_ERROR"
      [] OTHER -> "NONE"

Granted(o) == Decision(o) \in {"GRANTED_FULL", "GRANTED_DEMO"}

\* the feature names requests are made for under Spec, all of them names a
\* handler passes: one open to every tier, one that needs basic, and the one
\* handler name FEATURE_TIERS has no entry for (main.py:327)
FeatureInputs == {"compress", "upscale", "anime"}

\* what a handler of main.py sent back: nothing yet, or the status of the
\* reply and whether the result went through add_watermark; or nothing ever,
\* the request having been aborted
NoResponse == [sent |-> FALSE, status |-> 0, stamped |-> FALSE,
               aborted |-> FALSE]

\* the catalog lookup before it is made
NoLookup == [feature |-> "", tier |-> "", done |-> FALSE, direct |-> FALSE,
             grants |-> [t \in TierSet |-> FALSE], required |-> ""]

\* ------------------------------------------- auth.py: get_current_user.verify
\* auth.py:61-67.  The request arrives; without a key it is answered at once.
VerifyBegin(p, x_api_key, endpoint_category) ==
    /\ pc[p] = "idle"
    /\ ncalls < MaxCalls
    /\ ncalls' = ncalls + 1
    /\ call' = [call EXCEPT ![p] = [NoCall EXCEPT !.op = "verify",
                    !.key = x_api_key, !.feature = endpoint_category]]
    /\ IF x_api_key = NoKey
       THEN /\ pc' = pc
            /\ outcome' = [outcome EXCEPT ![p] =
                    IF endpoint_category \in {"compress", "palette"}
                    THEN Returned("free", NoKey, FALSE, 0)
                    ELSE Raised(401, "Missing API Key", "")]
       ELSE /\ pc' = [pc EXCEPT ![p] = "fetch"]
            /\ outcome' = [outcome EXCEPT ![p] = NoOutcome]
    /\ response' = [response EXCEPT ![p] = NoResponse]
    /\ UNCHANGED <<api_keys, users, demo_granted, cat, webhook_state, demo_usage>>

\* auth.py:69-98 and 111-124.  The select on api_keys; every exception of the
\* try block, the 401 and the 403 raised inside it included, is caught by
\* `except Exception` and answered 500.  With the row read, the tier check
\* and the demo check follow without another store call.
VerifyFetch(p) ==
    /\ pc[p] = "fetch"
    /\ \E ok \in BOOLEAN :
        LET key == call[p].key
            row == api_keys[key]
            f == call[p].feature
        IN  IF ~ok \/ row = NoRow \/ ~row.active
            THEN /\ call' = [call EXCEPT ![p].fetch = IF ok THEN "ok" ELSE "failed"]
                 /\ outcome' = [outcome EXCEPT ![p] = auth_db_error]
                 /\ pc' = [pc EXCEPT ![p] = "idle"]
            ELSE /\ call' = [call EXCEPT ![p].fetch = "ok",
                                 ![p].user_tier = row.tier,
                                 ![p].user_demos = row.demos_used]
                 /\ IF has_direct_access(row.tier, f)
                    THEN /\ outcome' = [outcome EXCEPT ![p] =
                                Returned(row.tier, key, FALSE, 0)]
                         /\ pc' = [pc EXCEPT ![p] = "idle"]
                    ELSE IF demo_available(row.demos_used)
                    THEN /\ outcome' = outcome
                         /\ pc' = [pc EXCEPT ![p] = "update"]
                    ELSE /\ outcome' = [outcome EXCEPT ![p] =
                                Raised(403, "Access Denied", required_tier(f))]
                         /\ pc' = [pc EXCEPT ![p] = "idle"]
    /\ UNCHANGED <<api_keys, users, ncalls, demo_granted, cat, response, webhook_state, demo_usage>>

\* an update that writes a whole fresh row for the key
demo_update_whole_row(table, key, user_demos) ==
    [table EXCEPT ![key] = [tier |-> "free", active |-> TRUE,
                            demos_used |-> user_demos + 1]]

\* auth.py:103-105  update({"demos_used": user_demos + 1}).eq("key", x_api_key)
demo_update(table, key, user_demos) ==
    [table EXCEPT ![key].demos_used = user_demos + 1]

\* auth.py:100-110 and 118-124.  The update of demos_used to the value read
\* plus one.  When it raises, `except: pass` goes on to the return with
\* is_demo_mode still False.
VerifyUpdate(p) ==
    /\ pc[p] = "update"
    /\ \E ok \in BOOLEAN :
        LET key == call[p].key
            user_demos == call[p].user_demos
        IN  IF ok
            THEN /\ api_keys' = demo_update(api_keys, key, user_demos)
                 /\ call' = [call EXCEPT ![p].update = "ok"]
                 /\ outcome' = [outcome EXCEPT ![p] =
                        Returned(call[p].user_tier, key, TRUE,
                                 demos_left_after(user_demos))]
                 /\ demo_granted' = [demo_granted EXCEPT ![key] = @ + 1]
            ELSE /\ api_keys' = api_keys
                 /\ call' = [call EXCEPT ![p].update = "failed"]
                 /\ outcome' = [outcome EXCEPT ![p] =
                        Returned(call[p].user_tier, key, FALSE, 0)]
                 /\ demo_granted' = demo_granted
    /\ pc' = [pc EXCEPT ![p] = "idle"]
    /\ UNCHANGED <<users, ncalls, cat, response, webhook_state, demo_usage>>

\* ---------------------------------------------- database.py, webhook.py
\* webhook.py:32-40
credits_map ==
    [plan \in {"free", "basic"} |-> 50]
    @@ [plan \in {"starter"} |-> 1000]
    @@ [plan \in {"pro", "mega", "ultra"} |-> 10000]
    @@ [plan \in {"enterprise"} |-> 50000]

\* webhook.py:30-41  credits_map.get(plan.lower(), 50)
get_credits_for_plan(plan) ==
    IF Lower(plan) \in DOMAIN credits_map THEN credits_map[Lower(plan)] ELSE 50

\* webhook.py:12-23.  sig_valid: the signature sent is the HMAC-SHA256 of the
\* payload under the configured secret.
verify_rapidapi_signature(sig_valid) ==
    IF ~secret_set THEN TRUE ELSE sig_valid

\* a deduction without the floor
new_credits_unfloored(credits, amount) == credits - amount

\* database.py:49  max(0, user["credits"] - amount)
new_credits_after(credits, amount) ==
    IF credits - amount > 0 THEN credits - amount ELSE 0

\* the plan names and the user ids the billing partner sends; NoUser is a
\* payload without user.id
PlanInputs == {"Pro", "starter", "gold"}
NoUser == ""
UserIds == {"u1"}
\* the amounts deduct_credit is called with: nothing, the default 1, and
\* more than the free allotment of 50
AmountInputs == {0, 1, 60}

\* the reply of a webhook handler; every exception raised inside a handler,
\* HTTPException included, is caught by its outer `except Exception` and
\* answered 500 (webhook.py:91-93, 133-135, 171-173)
WebhookOk == [NoOutcome EXCEPT !.status = 200]
WebhookError(detail) == Raised(500, detail, "")

\* the mapping rows of a user id, first inserted first (result.data)
RowsOf(user_id) ==
    SelectSeq(rapidapi_users, LAMBDA r : r.rapidapi_user_id = user_id)

\* database.py:44-50 with get_user (database.py:11-29): the select on users.
\* A failed select makes get_user return None, like a missing row, and
\* deduct_credit returns without writing.
DeductRead(p, api_key, amount) ==
    /\ pc[p] = "idle"
    /\ ncalls < MaxCalls
    /\ ncalls' = ncalls + 1
    /\ \E ok \in BOOLEAN :
        IF ok /\ users[api_key] # NoRow
        THEN /\ call' = [call EXCEPT ![p] = [NoCall EXCEPT !.op = "deduct_credit",
                        !.key = api_key, !.amount = amount, !.fetch = "ok",
                        !.credits = users[api_key].credits,
                        !.total_calls = users[api_key].total_calls]]
             /\ pc' = [pc EXCEPT ![p] = "deduct_write"]
        ELSE /\ call' = [call EXCEPT ![p] = [NoCall EXCEPT !.op = "deduct_credit",
                        !.key = api_key, !.amount = amount,
                        !.fetch = IF ok THEN "ok" ELSE "failed"]]
             /\ pc' = pc
    /\ outcome' = [outcome EXCEPT ![p] = NoOutcome]
    /\ UNCHANGED <<api_keys, users, demo_granted, cat, response, webhook_state, demo_usage>>

\* database.py:49-57: the update of credits and total_calls from the values
\* read; a failed update is printed and swallowed.
DeductWrite(p) ==
    /\ pc[p] = "deduct_write"
    /\ \E ok \in BOOLEAN :
        IF ok
        THEN /\ users' = [users EXCEPT ![call[p].key] = [@ EXCEPT
                        !.credits = new_credits_after(call[p].credits, call[p].amount),
                        !.total_calls = call[p].total_calls + 1]]
             /\ call' = [call EXCEPT ![p].update = "ok"]
        ELSE /\ users' = users
             /\ call' = [call EXCEPT ![p].update = "failed"]
    /\ pc' = [pc EXCEPT ![p] = "idle"]
    /\ UNCHANGED <<api_keys, outcome, ncalls, demo_granted, cat, response, webhook_state, demo_usage>>

\* webhook.py:43-69 with add_user (database.py:31-42): the signature check,
\* the user id check, the new key (webhook.py:65) and the insert into users.
SubscribeAddUser(p, user_id, plan, sig_valid) ==
    /\ pc[p] = "idle"
    /\ ncalls < MaxCalls
    /\ ncalls' = ncalls + 1
    /\ LET plan_name == Upper(plan)
           credits == get_credits_for_plan(plan_name)
           this == [NoCall EXCEPT !.op = "subscribe", !.user_id = user_id,
                        !.plan = plan_name, !.credits = credits,
                        !.sig_valid = sig_valid]
       IN  IF ~verify_rapidapi_signature(sig_valid)
           THEN /\ call' = [call EXCEPT ![p] = this]
                /\ outcome' = [outcome EXCEPT ![p] = WebhookError("Invalid signature")]
                /\ UNCHANGED <<pc, users>>
           ELSE IF user_id = NoUser
           THEN /\ call' = [call EXCEPT ![p] = this]
                /\ outcome' = [outcome EXCEPT ![p] = WebhookError("Missing user ID")]
                /\ UNCHANGED <<pc, users>>
           ELSE \E api_key \in {generate_api_key({k \in Keys : users[k] # NoRow})},
                   ok \in BOOLEAN :
                /\ call' = [call EXCEPT ![p] = [this EXCEPT !.key = api_key,
                                !.update = IF ok THEN "ok" ELSE "failed"]]
                /\ IF ok
                   THEN /\ users' = [users EXCEPT ![api_key] =
                                UserRow(plan_name, credits, 0)]
                        /\ pc' = [pc EXCEPT ![p] = "subscribe_map"]
                        /\ outcome' = [outcome EXCEPT ![p] = NoOutcome]
                   ELSE /\ users' = users
                        /\ pc' = pc
                        /\ outcome' = [outcome EXCEPT ![p] =
                                WebhookError("User already exists")]
    /\ UNCHANGED <<api_keys, demo_granted, cat, response, webhook_state, demo_usage>>

\* admin.py:20-24  the plans the admin script offers and their credits
plan_map ==
    [choice \in {"A"} |-> [plan |-> "BASIC", credits |-> 5]]
    @@ [choice \in {"B"} |-> [plan |-> "PRO", credits |-> 100]]
    @@ [choice \in {"C"} |-> [plan |-> "ULTRA", credits |-> 1000]]

\* the answers typed to the plan question of the admin script, in either
\* case; "D" is no plan
AdminChoiceInputs == {"a", "B", "C", "D"}

\* admin.py:13-34 with add_user (database.py:31-42): option 1 of the admin
\* script reads the answer and puts it in upper case (admin.py:18), then
\* creates a user with a fresh key (generate_key, admin.py:4-5) and the
\* credits of plan_map; no mapping and no api_keys row is written.  A store
\* error leaves add_user as an exception and ends the script.
AdminAddUser(p, answer) ==
    /\ pc[p] = "idle"
    /\ ncalls < MaxCalls
    /\ ncalls' = ncalls + 1
    /\ LET plan_choice == Upper(answer)
           this == [NoCall EXCEPT !.op = "admin_add_user"]
       IN  IF plan_choice \notin DOMAIN plan_map
           THEN /\ call' = [call EXCEPT ![p] = this]
                /\ users' = users
           ELSE \E api_key \in {generate_api_key({k \in Keys : users[k] # NoRow})},
                   ok \in BOOLEAN :
                /\ call' = [call EXCEPT ![p] = [this EXCEPT !.key = api_key,
                                !.plan = plan_map[plan_choice].plan,
                                !.credits = plan_map[plan_choice].credits,
                                !.update = IF ok THEN "ok" ELSE "failed"]]
                /\ users' = IF ok
                            THEN [users EXCEPT ![api_key] =
                                    UserRow(plan_map[plan_choice].plan,
                                            plan_map[plan_choice].credits, 0)]
                            ELSE users
    /\ outcome' = [outcome EXCEPT ![p] = NoOutcome]
    /\ UNCHANGED <<api_keys, pc, demo_granted, cat, response, webhook_state,
                   demo_usage>>

\* webhook.py:71-89: the insert into rapidapi_users, then the reply.
SubscribeMap(p) ==
    /\ pc[p] = "subscribe_map"
    /\ \E ok \in BOOLEAN :
        IF ok
        THEN /\ rapidapi_users' = Append(rapidapi_users,
                    [rapidapi_user_id |-> call[p].user_id,
                     api_key |-> call[p].key, plan |-> call[p].plan])
             /\ outcome' = [outcome EXCEPT ![p] = WebhookOk]
        ELSE /\ rapidapi_users' = rapidapi_users
             /\ outcome' = [outcome EXCEPT ![p] = WebhookError("User already exists")]
    /\ pc' = [pc EXCEPT ![p] = "idle"]
    /\ UNCHANGED <<api_keys, users, call, ncalls, demo_granted, cat, response, secret_set, demo_usage>>

\* a cancellation that leaves the free allotment
cancel_update_keeps_allotment ==
    [plan_type |-> "FREE", credits |-> get_credits_for_plan("FREE")]

\* webhook.py:159-162  what cancel writes to the users row
cancel_update == [plan_type |-> "FREE", credits |-> 0]

\* webhook.py:95-118 and 137-157: the signature check and the select on
\* rapidapi_users of the upgrade and the cancel handler.  op is "upgrade" or
\* "cancel"; cancel sets plan FREE and credits 0 (webhook.py:159-162).
WebhookSelect(p, op, user_id, plan, sig_valid) ==
    /\ pc[p] = "idle"
    /\ ncalls < MaxCalls
    /\ ncalls' = ncalls + 1
    /\ LET new_plan == IF op = "cancel" THEN cancel_update.plan_type
                       ELSE Upper(plan)
           new_credits == IF op = "cancel" THEN cancel_update.credits
                          ELSE get_credits_for_plan(new_plan)
           this == [NoCall EXCEPT !.op = op, !.user_id = user_id,
                        !.plan = new_plan, !.credits = new_credits,
                        !.sig_valid = sig_valid]
       IN  IF ~verify_rapidapi_signature(sig_valid)
           THEN /\ call' = [call EXCEPT ![p] = this]
                /\ outcome' = [outcome EXCEPT ![p] = WebhookError("Invalid signature")]
                /\ pc' = pc
           ELSE \E ok \in BOOLEAN :
                IF ~ok
                THEN /\ call' = [call EXCEPT ![p] = [this EXCEPT !.fetch = "failed"]]
                     /\ outcome' = [outcome EXCEPT ![p] = WebhookError("store")]
                     /\ pc' = pc
                ELSE IF RowsOf(user_id) = <<>>
                THEN /\ call' = [call EXCEPT ![p] = [this EXCEPT !.fetch = "ok"]]
                     /\ outcome' = [outcome EXCEPT ![p] = WebhookError("User not found")]
                     /\ pc' = pc
                ELSE /\ call' = [call EXCEPT ![p] = [this EXCEPT !.fetch = "ok",
                                    !.key = RowsOf(user_id)[1].api_key]]
                     /\ outcome' = [outcome EXCEPT ![p] = NoOutcome]
                     /\ pc' = [pc EXCEPT ![p] = "webhook_update"]
    /\ UNCHANGED <<api_keys, users, demo_granted, cat, response, webhook_state, demo_usage>>

\* webhook.py:120-131 and 159-169: the update of plan_type and credits of the
\* row the mapping names, then the reply.
WebhookUpdate(p) ==
    /\ pc[p] = "webhook_update"
    /\ \E ok \in BOOLEAN :
        IF ok
        THEN /\ users' = [users EXCEPT ![call[p].key] =
                    IF @ = NoRow THEN @
                    ELSE [@ EXCEPT !.plan_type = call[p].plan,
                                   !.credits = call[p].credits]]
             /\ call' = [call EXCEPT ![p].update = "ok"]
             /\ outcome' = [outcome EXCEPT ![p] = WebhookOk]
        ELSE /\ users' = users
             /\ call' = [call EXCEPT ![p].update = "failed"]
             /\ outcome' = [outcome EXCEPT ![p] = WebhookError("store")]
    /\ pc' = [pc EXCEPT ![p] = "idle"]
    /\ UNCHANGED <<api_keys, ncalls, demo_granted, cat, response, webhook_state, demo_usage>>

\* -------------------------------------------------------- specification
\* The store when the requests arrive: key k1 was issued (any tier, active
\* or disabled) and has been answered in demo mode d times, either never or
\* so often that one demo is left.  The users table, which database.py keys
\* by the same key string (database.py:14-16), holds its credit balance.
\* Key k2 was never issued.
Init ==
    /\ \E t \in TierSet, a \in BOOLEAN, d \in {0, DEMO_LIMIT - 1} :
        /\ api_keys = [k \in Keys |-> IF k = "k1" THEN KeyRow(t, a, d) ELSE NoRow]
        /\ demo_granted = [k \in Keys |-> IF k = "k1" THEN d ELSE 0]
    /\ \E c \in {0, 1} :
        users = [k \in Keys |-> IF k = "k1" THEN UserRow("FREE", c, 0) ELSE NoRow]
    /\ pc = [p \in Procs |-> "idle"]
    /\ call = [p \in Procs |-> NoCall]
    /\ outcome = [p \in Procs |-> NoOutcome]
    /\ ncalls = 0
    /\ cat = NoLookup
    /\ rapidapi_users = <<>>
    /\ secret_set = TRUE
    /\ response = [p \in Procs |-> NoResponse]
    /\ demo_usage = <<>>

\* the (key, feature) pairs of the requests under Spec: the issued key k1
\* with every feature of FeatureInputs; the unknown key k2, which verify
\* answers before it looks at the feature; and no key at all, with a feature
\* of the keyless list (auth.py:65) and with one outside it
CallInputs ==
    ({"k1"} \X FeatureInputs)
    \cup {<<"k2", "upscale">>, <<NoKey, "compress">>, <<NoKey, "upscale">>}

Next ==
    \E p \in Procs :
        \/ \E c \in CallInputs : VerifyBegin(p, c[1], c[2])
        \/ VerifyFetch(p)
        \/ VerifyUpdate(p)

Spec == Init /\ [][Next]_vars

\* ------------------------------------------------- the ledger in sequence
\* The store before any subscription: both tables empty.  The receiver runs
\* with or without a configured webhook secret.
LedgerInit ==
    /\ api_keys = [k \in Keys |-> NoRow]
    /\ users = [k \in Keys |-> NoRow]
    /\ rapidapi_users = <<>>
    /\ secret_set \in BOOLEAN
    /\ pc = [p \in Procs |-> "idle"]
    /\ call = [p \in Procs |-> NoCall]
    /\ outcome = [p \in Procs |-> NoOutcome]
    /\ ncalls = 0
    /\ demo_granted = [k \in Keys |-> 0]
    /\ cat = NoLookup
    /\ response = [p \in Procs |-> NoResponse]
    /\ demo_usage = <<>>

\* one step of one ledger operation of request p
LedgerStep(p) ==
    \/ \E k \in Keys, a \in AmountInputs : DeductRead(p, k, a)
    \/ DeductWrite(p)
    \/ \E u \in UserIds \cup {NoUser}, pl \in PlanInputs, sv \in BOOLEAN :
            SubscribeAddUser(p, u, pl, sv)
    \/ SubscribeMap(p)
    \/ \E op \in {"upgrade", "cancel"}, u \in UserIds \cup {NoUser},
           pl \in PlanInputs, sv \in BOOLEAN :
            WebhookSelect(p, op, u, pl, sv)
    \/ WebhookUpdate(p)
    \/ \E ch \in AdminChoiceInputs : AdminAddUser(p, ch)

\* The calls come one after another, each through the same request slot: a
\* call is started only when the one before it has returned.
LedgerNext == LedgerStep(1)

SpecLedger == LedgerInit /\ [][LedgerNext]_vars

\* ------------------------------------------------- the catalog on its own
\* the feature names looked up under SpecCatalog: every catalog entry, every
\* name a handler passes, and one name neither knows
CatalogInputs == DOMAIN FEATURE_TIERS \cup HandlerFeatures \cup {"hologram"}

\* auth.py:87-89 for one feature and one tier: the tier check of verify, and
\* beside it the same check for every tier and the tier the 403 names
\* (auth.py:115, allowed_tiers[0]).
CatalogLookup ==
    /\ ~cat.done
    /\ cat' = [cat EXCEPT
            !.done = TRUE,
            !.direct = has_direct_access(cat.tier, cat.feature),
            !.grants = [t \in TierSet |-> has_direct_access(t, cat.feature)],
            !.required = allowed_tiers(cat.feature)[1]]
    /\ UNCHANGED <<api_keys, users, pc, call, outcome, ncalls, demo_granted,
                   webhook_state, response, demo_usage>>

CatalogInit ==
    /\ \E f \in CatalogInputs, t \in TierSet :
        cat = [NoLookup EXCEPT !.feature = f, !.tier = t]
    /\ api_keys = [k \in Keys |-> NoRow]
    /\ users = [k \in Keys |-> NoRow]
    /\ pc = [p \in Procs |-> "idle"]
    /\ call = [p \in Procs |-> NoCall]
    /\ outcome = [p \in Procs |-> NoOutcome]
    /\ ncalls = 0
    /\ demo_granted = [k \in Keys |-> 0]
    /\ rapidapi_users = <<>>
    /\ secret_set = TRUE
    /\ response = [p \in Procs |-> NoResponse]
    /\ demo_usage = <<>>

CatalogNext == CatalogLookup

SpecCatalog == CatalogInit /\ [][CatalogNext]_vars

\* ------------------------------------------------------- main.py: signup
\* the emails and the tier names signup is called with; "gold" is no tier
EmailInputs == {"a@x.io", "b@x.io"}
SignupTierInputs == {"free", "pro", "gold"}

\* main.py:94-102: the api_keys row signup inserts
SignupRow(email, tier) ==
    [tier |-> tier, active |-> TRUE, demos_used |-> 0, email |-> email]

\* main.py:111-118
SignupOk(tier, api_key) ==
    [NoOutcome EXCEPT !.status = 200, !.tier = tier, !.key = api_key]

\* the rows of api_keys with the email (main.py:89, .eq("email", email))
KeysOfEmail(email) ==
    {k \in Keys : api_keys[k] # NoRow /\ "email" \in DOMAIN api_keys[k]
                  /\ api_keys[k].email = email}

\* the keys handed to signups that have not inserted yet
KeysInFlight == {call[q].key : q \in {r \in Procs : pc[r] = "signup_insert"}}

\* main.py:80-91.  The tier check, the new key (main.py:85-86) and the
\* select for the email.  The 400s are HTTPExceptions and pass `except
\* HTTPException: raise`; a store error is answered 500.
SignupCheck(p, email, tier) ==
    /\ pc[p] = "idle"
    /\ ncalls < MaxCalls
    /\ ncalls' = ncalls + 1
    /\ LET this == [NoCall EXCEPT !.op = "signup", !.email = email,
                        !.user_tier = tier]
       IN  IF tier \notin TierSet
           THEN /\ call' = [call EXCEPT ![p] = this]
                /\ outcome' = [outcome EXCEPT ![p] = Raised(400, "Invalid tier", "")]
                /\ pc' = pc
           ELSE \E api_key \in {generate_api_key(
                                    {k \in Keys : api_keys[k] # NoRow}
                                    \cup KeysInFlight)},
                   ok \in BOOLEAN :
                /\ IF ~ok
                   THEN /\ call' = [call EXCEPT ![p] =
                                [this EXCEPT !.key = api_key, !.fetch = "failed"]]
                        /\ outcome' = [outcome EXCEPT ![p] = Raised(500, "store", "")]
                        /\ pc' = pc
                   ELSE IF KeysOfEmail(email) # {}
                   THEN /\ call' = [call EXCEPT ![p] =
                                [this EXCEPT !.key = api_key, !.fetch = "ok"]]
                        /\ outcome' = [outcome EXCEPT ![p] =
                                Raised(400, "Email already registered", "")]
                        /\ pc' = pc
                   ELSE /\ call' = [call EXCEPT ![p] =
                                [this EXCEPT !.key = api_key, !.fetch = "ok"]]
                        /\ outcome' = [outcome EXCEPT ![p] = NoOutcome]
                        /\ pc' = [pc EXCEPT ![p] = "signup_insert"]
    /\ UNCHANGED <<api_keys, users, demo_granted, cat, response, webhook_state,
                   demo_usage>>

\* main.py:93-118.  The insert into api_keys and the reply with the key.
SignupInsert(p) ==
    /\ pc[p] = "signup_insert"
    /\ \E ok \in BOOLEAN :
        IF ok
        THEN /\ api_keys' = [api_keys EXCEPT ![call[p].key] =
                    SignupRow(call[p].email, call[p].user_tier)]
             /\ call' = [call EXCEPT ![p].update = "ok"]
             /\ outcome' = [outcome EXCEPT ![p] =
                    SignupOk(call[p].user_tier, call[p].key)]
        ELSE /\ api_keys' = api_keys
             /\ call' = [call EXCEPT ![p].update = "failed"]
             /\ outcome' = [outcome EXCEPT ![p] = Raised(500, "store", "")]
    /\ pc' = [pc EXCEPT ![p] = "idle"]
    /\ UNCHANGED <<users, ncalls, demo_granted, cat, response, webhook_state,
                   demo_usage>>

\* The signups arrive at an empty api_keys table, any number of them at once;
\* the keys are used on a basic feature meanwhile.
SignupNext ==
    \E p \in Procs :
        \/ \E e \in EmailInputs, t \in SignupTierInputs : SignupCheck(p, e, t)
        \/ SignupInsert(p)
        \/ \E k \in Keys : VerifyBegin(p, k, "upscale")
        \/ VerifyFetch(p)
        \/ VerifyUpdate(p)

\* the empty store, the receiver configured with its webhook secret
SignupInit == LedgerInit /\ secret_set = TRUE

SpecSignup == SignupInit /\ [][SignupNext]_vars

\* ------------------------------------------- database.py: the demo_usage table
\* the features the demo usage of key k1 is counted for
UsageFeatureInputs == {"upscale", "colorize"}

\* the rows of one key and feature, first inserted first (response.data)
UsageRows(table, api_key, feature) ==
    SelectSeq(table, LAMBDA r : r.api_key = api_key /\ r.feature = feature)

\* database.py:59-70  get_demo_count: the count of the first row, 0 when
\* there is none, and 0 as well when the select raised (`except: return 0`)
get_demo_count(table, api_key, feature, ok) ==
    IF ok /\ UsageRows(table, api_key, feature) # <<>>
    THEN UsageRows(table, api_key, feature)[1].count
    ELSE 0

\* database.py:59-70 called on its own: one select, then the return.
GetDemoCount(p, api_key, feature) ==
    /\ pc[p] = "idle"
    /\ ncalls < MaxCalls
    /\ ncalls' = ncalls + 1
    /\ \E ok \in BOOLEAN :
        call' = [call EXCEPT ![p] = [NoCall EXCEPT !.op = "get_demo_count",
                    !.key = api_key, !.feature = feature,
                    !.fetch = IF ok THEN "ok" ELSE "failed",
                    !.returned = get_demo_count(demo_usage, api_key, feature, ok)]]
    /\ outcome' = [outcome EXCEPT ![p] = [NoOutcome EXCEPT !.status = 200]]
    /\ UNCHANGED <<api_keys, users, pc, demo_granted, cat, response,
                   webhook_state, demo_usage>>

\* database.py:74-75: increment_demo reads the current count.
IncrementRead(p, api_key, feature) ==
    /\ pc[p] = "idle"
    /\ ncalls < MaxCalls
    /\ ncalls' = ncalls + 1
    /\ \E ok \in BOOLEAN :
        call' = [call EXCEPT ![p] = [NoCall EXCEPT !.op = "increment_demo",
                    !.key = api_key, !.feature = feature,
                    !.fetch = IF ok THEN "ok" ELSE "failed",
                    !.current = get_demo_count(demo_usage, api_key, feature, ok)]]
    /\ pc' = [pc EXCEPT ![p] = "increment_write"]
    /\ outcome' = [outcome EXCEPT ![p] = NoOutcome]
    /\ UNCHANGED <<api_keys, users, demo_granted, cat, response, webhook_state,
                   demo_usage>>

\* database.py:77-88: with current = 0 a new row with count 1 is inserted,
\* otherwise the rows of the key and feature are updated to current + 1; a
\* store error is printed and swallowed.
IncrementWrite(p) ==
    /\ pc[p] = "increment_write"
    /\ \E ok \in BOOLEAN :
        IF ok
        THEN /\ demo_usage' =
                    IF call[p].current = 0
                    THEN Append(demo_usage, [api_key |-> call[p].key,
                                feature |-> call[p].feature, count |-> 1])
                    ELSE [i \in DOMAIN demo_usage |->
                            IF /\ demo_usage[i].api_key = call[p].key
                               /\ demo_usage[i].feature = call[p].feature
                            THEN [demo_usage[i] EXCEPT !.count = call[p].current + 1]
                            ELSE demo_usage[i]]
             /\ call' = [call EXCEPT ![p].update = "ok"]
        ELSE /\ demo_usage' = demo_usage
             /\ call' = [call EXCEPT ![p].update = "failed"]
    /\ pc' = [pc EXCEPT ![p] = "idle"]
    /\ outcome' = [outcome EXCEPT ![p] = [NoOutcome EXCEPT !.status = 200]]
    /\ UNCHANGED <<api_keys, users, ncalls, demo_granted, cat, response,
                   webhook_state>>

\* the calls on the demo_usage table, any number of them at once, all for
\* key k1; the table starts empty
UsageNext ==
    \E p \in Procs :
        \/ \E f \in UsageFeatureInputs : GetDemoCount(p, "k1", f)
        \/ \E f \in UsageFeatureInputs : IncrementRead(p, "k1", f)
        \/ IncrementWrite(p)

SpecUsage == SignupInit /\ [][UsageNext]_vars

\* ------------------------------------------------- the endpoint handlers
\* main.py:18 imports check_access from auth, and auth.py defines no such
\* name: the dependency every handler is declared with
\* (Depends(check_access(<feature>)), main.py:216 .. 398) is not in the
\* source.  It is modelled from the specification, as authorize of its
\* section 4.2 on the AccountRecord of section 3: tier and active are the
\* columns of api_keys, creditBalance is the credits column of users, and
\* demoUsage is the (key, feature) -> count collection demo_usage (section 6,
\* persisted state layout).

\* section 3: the place of a tier in the order FREE < BASIC < PRO < ENTERPRISE
TierRank(t) == CHOOSE i \in DOMAIN Tiers : Tiers[i] = t

\* section 4.1, requiredTier: the minimum tier that grants full access to
\* the feature, over the static table FEATURE_TIERS; ENTERPRISE for a feature
\* the table does not know
requiredTier(feature) ==
    LET ranks == {TierRank(allowed_tiers(feature)[i]) :
                    i \in DOMAIN allowed_tiers(feature)}
    IN  Tiers[CHOOSE r \in ranks : \A q \in ranks : r <= q]

\* section 3: the creditBalance of a key's record
creditBalance(table, key) ==
    IF table[key] = NoRow THEN 0 ELSE table[key].credits

\* section 3: demoUsage[feature] of a key's record, 0 while nothing is stored
demoUsage(table, key, feature) == get_demo_count(table, key, feature, TRUE)

\* a charge that is made when the output is delivered, not on authorization
charge_on_delivery(credits) == credits

\* section 4.2 step 5: the balance less the fixed per-call cost of 1
credits_after_charge(credits) == credits - 1

\* section 4.2 step 4: demoUsage with the count of the feature raised by 1
demo_usage_after(table, key, feature) ==
    IF UsageRows(table, key, feature) = <<>>
    THEN Append(table, [api_key |-> key, feature |-> feature, count |-> 1])
    ELSE [i \in DOMAIN table |->
            IF table[i].api_key = key /\ table[i].feature = feature
            THEN [table[i] EXCEPT !.count = @ + 1]
            ELSE table[i]]

\* an answer of check_access that leaves the store as it is
Refuse(p, this, o) ==
    /\ call' = [call EXCEPT ![p] = this]
    /\ outcome' = [outcome EXCEPT ![p] = o]
    /\ users' = users
    /\ demo_usage' = demo_usage

\* section 4.2, authorize, with the request-level statuses of section 6.
\* One step: the read-modify-write is a per-key atomic update (section 5),
\* under policy (a) of the failure semantics, so that a write that fails
\* means the grant never took effect.  Step 1: a missing or unknown key is
\* answered 401 and a disabled one 403; a failed read is a service failure.
\* Steps 3-4: full access by tier, else a demo while demoUsage[feature] is
\* below DEMO_LIMIT, else DENIED_DEMO_EXHAUSTED with tierRequired.  Step 5:
\* without credit the answer is DENIED_NO_CREDIT (429) and nothing is
\* written; otherwise the call is charged.  Step 6: the demo increment and
\* the charge are persisted together.
check_access(p, x_api_key, endpoint_category) ==
    /\ pc[p] = "idle"
    /\ ncalls < MaxCalls
    /\ ncalls' = ncalls + 1
    /\ response' = [response EXCEPT ![p] = NoResponse]
    /\ \E read_ok, write_ok \in BOOLEAN :
        LET this == [NoCall EXCEPT !.op = "check_access", !.key = x_api_key,
                        !.feature = endpoint_category]
        IN  IF x_api_key = NoKey
            THEN Refuse(p, this, Raised(401, "Missing API Key", ""))
            ELSE IF ~read_ok
            THEN Refuse(p, [this EXCEPT !.fetch = "failed"],
                        Raised(503, "Service Unavailable", ""))
            ELSE IF api_keys[x_api_key] = NoRow
            THEN Refuse(p, [this EXCEPT !.fetch = "ok"],
                        Raised(401, "Invalid API Key", ""))
            ELSE IF ~api_keys[x_api_key].active
            THEN Refuse(p, [this EXCEPT !.fetch = "ok"],
                        Raised(403, "Key disabled", ""))
            ELSE
            LET tier == api_keys[x_api_key].tier
                required == requiredTier(endpoint_category)
                full == TierRank(tier) >= TierRank(required)
                used == demoUsage(demo_usage, x_api_key, endpoint_category)
                credits == creditBalance(users, x_api_key)
                read == [this EXCEPT !.fetch = "ok", !.user_tier = tier,
                            !.user_demos = used, !.credits = credits]
            IN  IF ~full /\ used >= DEMO_LIMIT
                THEN Refuse(p, read, Raised(403, "Access Denied", Upper(required)))
                ELSE IF credits <= 0
                THEN Refuse(p, read, Raised(429, "Out of credits", ""))
                ELSE IF ~write_ok
                THEN Refuse(p, [read EXCEPT !.update = "failed"],
                            Raised(503, "Service Unavailable", ""))
                ELSE /\ call' = [call EXCEPT ![p] = [read EXCEPT !.update = "ok"]]
                     /\ users' = [users EXCEPT ![x_api_key].credits =
                                    credits_after_charge(credits)]
                     /\ demo_usage' =
                            IF full THEN demo_usage
                            ELSE demo_usage_after(demo_usage, x_api_key,
                                                  endpoint_category)
                     /\ outcome' = [outcome EXCEPT ![p] =
                            Returned(tier, x_api_key, ~full,
                                     IF full THEN 0 ELSE DEMO_LIMIT - (used + 1))]
    /\ UNCHANGED <<api_keys, pc, demo_granted, cat, webhook_state>>

\* the handler of request p has ended: it replied, or the request was aborted
Finished(p) == response[p].sent \/ response[p].aborted

\* main.py:212-404.  A request arrives at an endpoint; FastAPI resolves the
\* dependency check_access(<feature>) first.  A slot takes the next request
\* when the one before it has been answered: rejected by the access check,
\* replied to, or aborted.
HandlerBegin(p, e, x_api_key) ==
    /\ (call[p].op = "check_access" /\ outcome[p].status = 200) => Finished(p)
    /\ check_access(p, x_api_key, e.feature)

\* main.py:199-206 and 253-404: a table of the store after the body of a
\* handler has run with result r.  No handler and no error path of
\* process_with_timeout makes a store call.
store_after_body(table, r) == table

\* main.py:219-221 .. 401-404: the body of a handler, run when the dependency
\* has returned the user context.  The service returns its result, raises,
\* or (under process_with_timeout, main.py:199-206) runs out of time and is
\* answered 504; or the request is aborted, which cancels the handler at one
\* of its awaits (load_img, process_with_timeout) and sends nothing.  A
\* result is passed through add_watermark only by the handlers that test
\* user["_demo_mode"] (main.py:262-263 and alike).
Respond(p) ==
    /\ pc[p] = "idle"
    /\ call[p].op = "check_access"
    /\ outcome[p].status = 200
    /\ ~Finished(p)
    /\ LET e == EndpointOf(call[p].feature)
       IN  \E r \in {"ok", "error", "aborted"}
                    \cup (IF e.path \in TimedPaths THEN {"timeout"} ELSE {}) :
            /\ response' = [response EXCEPT ![p] =
                [sent |-> r # "aborted",
                 status |-> CASE r = "ok" -> 200
                              [] r = "timeout" -> 504
                              [] r = "aborted" -> 0
                              [] OTHER -> 500,
                 stamped |-> r = "ok" /\ e.stamps /\ outcome[p].demo_mode,
                 aborted |-> r = "aborted"]]
            /\ api_keys' = store_after_body(api_keys, r)
            /\ users' = store_after_body(users, r)
            /\ demo_usage' = store_after_body(demo_usage, r)
    /\ UNCHANGED <<pc, call, outcome, ncalls, demo_granted, cat, webhook_state>>

\* the (endpoint, key) pairs of the requests under SpecHandler: the issued
\* key k1 at an endpoint that stamps its demo results and runs under the time
\* limit and at one that does neither, and no key
HandlerInputs ==
    { <<EndpointOf("upscale"), "k1">>, <<EndpointOf("vectorize"), "k1">>,
      <<EndpointOf("compress"), NoKey>> }

\* the credit balances the issued key starts with: none, and the allotment
\* of the free plan (webhook.py:33)
HandlerCredits == {0, 50}

\* the store the handlers start from: one issued key of any tier, active or
\* disabled, with a users row, and with no demo used or one demo left on
\* 'upscale'
HandlerInit ==
    /\ \E t \in TierSet, a \in BOOLEAN :
        api_keys = [k \in Keys |-> IF k = "k1" THEN KeyRow(t, a, 0) ELSE NoRow]
    /\ \E c \in HandlerCredits :
        users = [k \in Keys |-> IF k = "k1" THEN UserRow("FREE", c, 0) ELSE NoRow]
    /\ demo_granted = [k \in Keys |-> 0]
    /\ pc = [p \in Procs |-> "idle"]
    /\ call = [p \in Procs |-> NoCall]
    /\ outcome = [p \in Procs |-> NoOutcome]
    /\ ncalls = 0
    /\ cat = NoLookup
    /\ rapidapi_users = <<>>
    /\ secret_set = TRUE
    /\ response = [p \in Procs |-> NoResponse]
    /\ \E d \in {0, DEMO_LIMIT - 1} :
        demo_usage = IF d = 0 THEN <<>>
                     ELSE <<[api_key |-> "k1", feature |-> "upscale", count |-> d]>>

\* any number of requests are in flight; each step is the access check of
\* one of them or the end of the handler body of one of them
HandlerNext ==
    \E p \in Procs :
        \/ \E c \in HandlerInputs : HandlerBegin(p, c[1], c[2])
        \/ Respond(p)

SpecHandler == HandlerInit /\ [][HandlerNext]_vars

\* ---------------------------------------------------------------- claims
\* request p has been answered by verify (its call record and its outcome
\* stay until p starts the next call)
Answered(p) == pc[p] = "idle" /\ call[p].op = "verify"

\* request p has been answered by the access check of its handler
Authorized(p) == pc[p] = "idle" /\ call[p].op = "check_access"

\* p's answered call reached the tier check: it carried a key, the select
\* succeeded and returned an active row
Resolved(p) == Answered(p) /\ call[p].key # NoKey /\ outcome[p].status # 500

\* C1 (as claimed).  Race safety of credits: when every one of the N requests
\* has made exactly one authorization call against key k1, whose credit
\* balance the calls were fired against was 1, exactly one of them is granted
\* and the others are DENIED_NO_CREDIT.  (No action of verify writes the
\* users table, so the balance of a state is the balance the calls met.)
RaceSafetyOfCredits ==
    ( /\ users["k1"].credits = 1
      /\ ncalls = NProcs
      /\ \A p \in Procs : Resolved(p) /\ call[p].key = "k1" )
    => /\ Cardinality({p \in Procs : Granted(outcome[p])}) = 1
       /\ Cardinality({p \in Procs : Decision(outcome[p]) = "DENIED_NO_CREDIT"})
            = NProcs - 1

\* C2 (as claimed).  Demo cap under concurrency: the number of calls a key
\* has been granted in demo mode never exceeds DEMO_LIMIT.
DemoCapUnderConcurrency ==
    \A k \in Keys : demo_granted[k] <= DEMO_LIMIT

\* C3 (as claimed).  No grant without accounting: a call whose store write
\* of the usage mutation failed is not answered with a grant.
NoGrantWithoutAccounting ==
    \A p \in Procs :
        (Answered(p) /\ call[p].update = "failed") => ~Granted(outcome[p])

\* C4, first half: the stored demo usage never exceeds DEMO_LIMIT.
CounterWithinLimit ==
    \A k \in Keys : api_keys[k] # NoRow => api_keys[k].demos_used <= DEMO_LIMIT

\* C4, second half: the step in which an under-tier call reads a counter that
\* already equals DEMO_LIMIT answers 403 DENIED_DEMO_EXHAUSTED and writes
\* nothing to the store.
DeniedAtLimit ==
    \A p \in Procs :
        LET row == api_keys[call[p].key]
        IN  ( /\ pc[p] = "fetch" /\ pc'[p] # "fetch"
              /\ call'[p].fetch = "ok"
              /\ row # NoRow /\ row.active
              /\ ~has_direct_access(row.tier, call[p].feature)
              /\ row.demos_used = DEMO_LIMIT )
            => /\ pc'[p] = "idle"
               /\ outcome'[p].status = 403
               /\ Decision(outcome'[p]) = "DENIED_DEMO_EXHAUSTED"
               /\ api_keys' = api_keys

\* C4.  Demo counter bound: in every reachable state the stored demo usage of
\* a key is at most DEMO_LIMIT, and an under-tier call made when the counter
\* equals DEMO_LIMIT is denied with 403 and leaves the counter unchanged.
DemoCounterBound == []CounterWithinLimit /\ [][DeniedAtLimit]_vars

\* C4 witness: an under-tier call that read the counter at DEMO_LIMIT has
\* been denied, and the stored counter is DEMO_LIMIT.
DemoCounterBoundWitness ==
    \E p \in Procs :
        /\ Resolved(p)
        /\ call[p].user_demos = DEMO_LIMIT
        /\ Decision(outcome[p]) = "DENIED_DEMO_EXHAUSTED"
        /\ api_keys[call[p].key].demos_used = DEMO_LIMIT

\* C5 (as claimed).  Credit gate: a call for a valid, active key whose credit
\* balance is 0 is answered DENIED_NO_CREDIT and does not write the demo
\* counter.
CreditGate ==
    \A p \in Procs :
        ( /\ Resolved(p)
          /\ users[call[p].key] # NoRow
          /\ users[call[p].key].credits = 0 )
        => /\ Decision(outcome[p]) = "DENIED_NO_CREDIT"
           /\ call[p].update = "none"

\* the step in which request p is answered
AnsweredNow(p) == call[p].op = "verify" /\ pc[p] # "idle" /\ pc'[p] = "idle"

\* C6 (as claimed).  Per-call charge: the step that answers a call with a
\* grant lowers the key's credit balance by exactly 1, and the step that
\* answers it with a denial leaves the balance as it was.
PerCallCharge ==
    [][ \A p \in Procs :
          (AnsweredNow(p) /\ users[call[p].key] # NoRow)
          => IF Granted(outcome'[p])
             THEN users'[call[p].key].credits = users[call[p].key].credits - 1
             ELSE users'[call[p].key].credits = users[call[p].key].credits ]_vars

\* C7, first half: no stored credit balance is negative.
CreditsNonNegative ==
    \A k \in Keys : users[k] # NoRow => users[k].credits >= 0

\* C7, second half: the step in which deduct_credit(amount) writes leaves the
\* balance no lower than the balance before it less amount.
DeductLowersAtMostAmount ==
    \A p \in Procs :
        (pc[p] = "deduct_write" /\ pc'[p] = "idle")
        => users'[call[p].key].credits
             >= users[call[p].key].credits - call[p].amount

\* C7.  Credit floor: along every sequence of deduct_credit calls with
\* non-negative amounts and of subscribe, upgrade and cancel events, no credit
\* balance is negative and one deduct_credit(amount) lowers the balance by at
\* most amount.
CreditFloor == []CreditsNonNegative /\ [][DeductLowersAtMostAmount]_vars

\* C7 witness: deduct_credit has written for an amount above the positive
\* balance it read, and the stored balance is 0.
CreditFloorWitness ==
    \E p \in Procs :
        /\ pc[p] = "idle"
        /\ call[p].op = "deduct_credit"
        /\ call[p].update = "ok"
        /\ call[p].credits > 0
        /\ call[p].amount > call[p].credits
        /\ users[call[p].key].credits = 0

\* C8 (as claimed).  Fail-closed catalog: a key of tier free, basic or pro is
\* never answered with full (non-demo) access to a feature FEATURE_TIERS has
\* no entry for.
FailClosedCatalog ==
    \A p \in Procs :
        ( /\ Resolved(p)
          /\ call[p].feature \notin DOMAIN FEATURE_TIERS
          /\ call[p].user_tier \in {"free", "basic", "pro"} )
        => Decision(outcome[p]) # "GRANTED_FULL"

\* C9.  Tier monotonicity: for every feature of the catalog, a tier that is
\* given full access is followed, in the order free < basic < pro <
\* enterprise, only by tiers that are given full access too.
TierMonotonicity ==
    (cat.done /\ cat.feature \in DOMAIN FEATURE_TIERS)
    => \A i, j \in DOMAIN Tiers :
        (i < j /\ cat.grants[Tiers[i]]) => cat.grants[Tiers[j]]

\* C9 witness: a catalog feature looked up that a tier below enterprise is
\* given full access to and a lower tier is not.
TierMonotonicityWitness ==
    /\ cat.done
    /\ cat.feature \in DOMAIN FEATURE_TIERS
    /\ ~cat.grants["free"]
    /\ cat.grants["basic"]
    /\ cat.grants["enterprise"]

\* C10 (as claimed).  Catalog completeness: every feature name a handler
\* passes to the access check has a catalog entry, and a key of the tier the
\* handler documents is given full access to it.
CatalogCompleteness ==
    (cat.done /\ cat.feature \in HandlerFeatures)
    => /\ cat.feature \in DOMAIN FEATURE_TIERS
       /\ \A e \in Endpoints :
            (e.feature = cat.feature /\ e.doc_tier = cat.tier) => cat.direct

\* C11 (as claimed).  Precondition failures keep their own status: a call
\* whose select succeeded and found no row for the key is answered 401
\* 'Invalid API Key', and one whose row is not active is answered 403
\* 'API Key is disabled'; neither changes a store record.
PreconditionStatus ==
    \A p \in Procs :
        (Answered(p) /\ call[p].key # NoKey /\ call[p].fetch = "ok")
        => /\ api_keys[call[p].key] = NoRow
                => /\ outcome[p].status = 401
                   /\ outcome[p].detail = "Invalid API Key"
           /\ (api_keys[call[p].key] # NoRow /\ ~api_keys[call[p].key].active)
                => /\ outcome[p].status = 403
                   /\ outcome[p].detail = "API Key is disabled"

\* C12 (as claimed).  Missing key: an access check that was given no API key
\* is answered 401 or 403, whatever feature it is for, and grants nothing.
MissingKeyRejected ==
    \A p \in Procs :
        (Answered(p) /\ call[p].key = NoKey)
        => /\ outcome[p].status \in {401, 403}
           /\ ~Granted(outcome[p])

\* C13, in a state: a call whose select on api_keys raised has been answered
\* with the service failure, not with a grant.
ReadFailureDenied ==
    \A p \in Procs :
        (Answered(p) /\ call[p].fetch = "failed")
        => /\ Decision(outcome[p]) = "SERVICE_ERROR"
           /\ ~Granted(outcome[p])

\* C13, in a step: the step in which the select raises ends the call and
\* changes no store record.
ReadFailureWritesNothing ==
    \A p \in Procs :
        (pc[p] = "fetch" /\ call'[p].fetch = "failed")
        => /\ pc'[p] = "idle"
           /\ api_keys' = api_keys
           /\ users' = users
           /\ rapidapi_users' = rapidapi_users

\* C13.  Fail closed on read: when the store read that resolves the key and
\* reads its demo counter fails, the authorization ends in the service
\* failure (500), never in a grant, and no record is changed.
FailClosedOnRead == []ReadFailureDenied /\ [][ReadFailureWritesNothing]_vars

\* C13 witness: a call of the issued, active key whose select raised has been
\* answered 500, while the key still has a demo left.
FailClosedOnReadWitness ==
    \E p \in Procs :
        /\ Answered(p)
        /\ call[p].fetch = "failed"
        /\ outcome[p].status = 500
        /\ api_keys[call[p].key] # NoRow
        /\ api_keys[call[p].key].active
        /\ api_keys[call[p].key].demos_used < DEMO_LIMIT

\* C14 (as claimed).  Watermark presence: a result sent for a request whose
\* access decision was demo mode has been passed through add_watermark.
WatermarkPresence ==
    \A p \in Procs :
        ( /\ Authorized(p)
          /\ response[p].sent
          /\ response[p].status = 200
          /\ Decision(outcome[p]) = "GRANTED_DEMO" )
        => response[p].stamped

\* C15 (as claimed).  Per-feature demo accounting: the step that records a
\* demo call on one feature leaves the demo count of the same key on every
\* other feature as it was.
PerFeatureDemoAccounting ==
    [][ \A p \in Procs, f \in HandlerFeatures :
          ( /\ pc[p] = "update"
            /\ call'[p].update = "ok"
            /\ f # call[p].feature )
          => demo_count(api_keys', call[p].key, f)
               = demo_count(api_keys, call[p].key, f) ]_vars

\* C16 (as claimed).  Monotonic demo usage: no step lowers the stored demo
\* usage counter of a key.
MonotonicDemoUsage ==
    [][ \A k \in Keys :
          (api_keys[k] # NoRow /\ api_keys'[k] # NoRow)
          => api_keys'[k].demos_used >= api_keys[k].demos_used ]_vars

\* C17, the read: an under-tier call that reads a demo count c below
\* DEMO_LIMIT goes on to the store write with that c.
DemoBranchTaken ==
    \A p \in Procs :
        LET row == api_keys[call[p].key]
        IN  ( /\ pc[p] = "fetch" /\ call'[p].fetch = "ok"
              /\ row # NoRow /\ row.active
              /\ ~InList(row.tier, allowed_tiers(call[p].feature))
              /\ row.demos_used < DEMO_LIMIT )
            => /\ pc'[p] = "update"
               /\ call'[p].user_demos = row.demos_used

\* C17, the write: when the store write of that call succeeds the call is
\* granted in demo mode, the stored count is c + 1, and the remainder it
\* reports is DEMO_LIMIT - (c + 1), a number in 0..DEMO_LIMIT-1.
DemoGrantRecorded ==
    \A p \in Procs :
        LET c == call[p].user_demos
        IN  (pc[p] = "update" /\ call'[p].update = "ok")
            => /\ pc'[p] = "idle"
               /\ Decision(outcome'[p]) = "GRANTED_DEMO"
               /\ api_keys'[call[p].key].demos_used = c + 1
               /\ outcome'[p].demos_left = DEMO_LIMIT - (c + 1)
               /\ outcome'[p].demos_left \in 0..(DEMO_LIMIT - 1)

\* C17.  Demo grant bookkeeping: an under-tier call that reads a demo count c
\* below DEMO_LIMIT and whose store write succeeds is granted in demo mode,
\* leaves the stored count at exactly c + 1 and reports
\* demosRemaining = DEMO_LIMIT - (c + 1), which lies in 0..DEMO_LIMIT-1.
DemoGrantBookkeeping == [][DemoBranchTaken /\ DemoGrantRecorded]_vars

\* C17 witness: a call that read the count DEMO_LIMIT - 1 has been granted in
\* demo mode, the stored count is DEMO_LIMIT and it was told 0 demos are left.
DemoGrantBookkeepingWitness ==
    \E p \in Procs :
        /\ Answered(p)
        /\ call[p].update = "ok"
        /\ call[p].user_demos = DEMO_LIMIT - 1
        /\ Decision(outcome[p]) = "GRANTED_DEMO"
        /\ api_keys[call[p].key].demos_used = DEMO_LIMIT
        /\ outcome[p].demos_left = 0

\* the lowest tier, in the order free < basic < pro < enterprise, that the
\* catalog gives full access to the feature
MinTier(feature) ==
    Tiers[CHOOSE i \in DOMAIN Tiers :
            /\ InList(Tiers[i], allowed_tiers(feature))
            /\ \A j \in DOMAIN Tiers :
                    j < i => ~InList(Tiers[j], allowed_tiers(feature))]

\* C18.  Upgrade prompt: every DENIED_DEMO_EXHAUSTED answer names the lowest
\* tier that has full access to the requested feature: BASIC for 'upscale',
\* ENTERPRISE for a feature the catalog does not know.
UpgradePrompt ==
    \A p \in Procs :
        (Answered(p) /\ Decision(outcome[p]) = "DENIED_DEMO_EXHAUSTED")
        => /\ outcome[p].upgrade_to = Upper(MinTier(call[p].feature))
           /\ call[p].feature = "upscale" => outcome[p].upgrade_to = "BASIC"
           /\ call[p].feature \notin DOMAIN FEATURE_TIERS
                => outcome[p].upgrade_to = "ENTERPRISE"

\* C18 witness: a free key out of demos has been denied 'upscale' and told
\* to upgrade to BASIC, and has been denied the unknown feature 'anime' and
\* told to upgrade to ENTERPRISE.
UpgradePromptWitness ==
    \E p, q \in Procs :
        /\ Answered(p)
        /\ Decision(outcome[p]) = "DENIED_DEMO_EXHAUSTED"
        /\ call[p].feature = "upscale"
        /\ call[p].user_tier = "free"
        /\ outcome[p].upgrade_to = "BASIC"
        /\ Answered(q)
        /\ Decision(outcome[q]) = "DENIED_DEMO_EXHAUSTED"
        /\ call[q].feature = "anime"
        /\ call[q].user_tier = "free"
        /\ outcome[q].upgrade_to = "ENTERPRISE"

\* C19, in a step: the step in which a call reads a row whose tier is listed
\* for the feature answers it GRANTED_FULL and writes nothing, whatever the
\* demo counter of the row is.
DirectAccessStep ==
    \A p \in Procs :
        LET row == api_keys[call[p].key]
        IN  ( /\ pc[p] = "fetch" /\ call'[p].fetch = "ok"
              /\ row # NoRow /\ row.active
              /\ InList(row.tier, allowed_tiers(call[p].feature)) )
            => /\ pc'[p] = "idle"
               /\ Decision(outcome'[p]) = "GRANTED_FULL"
               /\ api_keys' = api_keys

\* C19, in a state: an answered call of a key whose tier is listed for the
\* feature is neither denied for demo exhaustion nor marked demo, and it did
\* not write the demo counter.
DirectAccessAnswer ==
    \A p \in Procs :
        (Resolved(p) /\ InList(call[p].user_tier, allowed_tiers(call[p].feature)))
        => /\ Decision(outcome[p]) = "GRANTED_FULL"
           /\ call[p].update = "none"

\* C19.  Tier-unlocked access ignores demos: when the key's tier gives full
\* access to the feature the call is never denied for demo exhaustion and
\* never marked demo, whatever the demo counter is, and it leaves the counter
\* unchanged.
TierUnlockedIgnoresDemos == []DirectAccessAnswer /\ [][DirectAccessStep]_vars

\* C19 witness: a key whose demo counter stands at DEMO_LIMIT has been given
\* full access to 'upscale', which its tier unlocks, and the counter still
\* stands at DEMO_LIMIT.
TierUnlockedIgnoresDemosWitness ==
    \E p \in Procs :
        /\ Resolved(p)
        /\ call[p].feature = "upscale"
        /\ InList(call[p].user_tier, allowed_tiers("upscale"))
        /\ call[p].user_demos = DEMO_LIMIT
        /\ Decision(outcome[p]) = "GRANTED_FULL"
        /\ api_keys[call[p].key].demos_used = DEMO_LIMIT

\* C20 (as claimed).  Webhook authenticity: a subscribe, upgrade or cancel
\* event whose signature is not the HMAC-SHA256 of its payload under the
\* shared secret writes no record, with or without a configured secret.
WebhookAuthenticity ==
    \A p \in Procs :
        ( /\ call[p].op \in {"subscribe", "upgrade", "cancel"}
          /\ ~call[p].sig_valid )
        => /\ call[p].update # "ok"
           /\ pc[p] = "idle"

\* C21 (as claimed).  Duplicate identity rejection: after any sequence or
\* interleaving of signup calls the api_keys table holds at most one key
\* record per email.
OneKeyPerEmail ==
    \A e \in EmailInputs : Cardinality(KeysOfEmail(e)) <= 1

\* C22, in a state: when a cancel event for a known user has been handled,
\* the users row of the key the mapping names for that user exists with
\* plan FREE and credit balance 0, and the mapping still names that key.
CancelledRecord ==
    \A p \in Procs :
        (pc[p] = "idle" /\ call[p].op = "cancel" /\ call[p].update = "ok")
        => /\ users[call[p].key] # NoRow
           /\ users[call[p].key].plan_type = "FREE"
           /\ users[call[p].key].credits = 0
           /\ RowsOf(call[p].user_id) # <<>>
           /\ RowsOf(call[p].user_id)[1].api_key = call[p].key

\* C22, in a step: no step removes a users row or a mapping row.
NoRecordRemoved ==
    /\ \A k \in Keys : users[k] # NoRow => users'[k] # NoRow
    /\ Len(rapidapi_users') >= Len(rapidapi_users)
    /\ \A i \in DOMAIN rapidapi_users : rapidapi_users'[i] = rapidapi_users[i]

\* C22.  Cancellation: after a cancel event for a known user, that user's
\* record still exists with tier FREE and credit balance 0; the record is
\* not removed and its key is unchanged.
Cancellation == []CancelledRecord /\ [][NoRecordRemoved]_vars

\* C22 witness: a user who subscribed to PRO has been cancelled; the row of
\* the key stands at FREE with 0 credits.
CancellationWitness ==
    \E p \in Procs :
        /\ pc[p] = "idle" /\ call[p].op = "cancel" /\ call[p].update = "ok"
        /\ RowsOf(call[p].user_id) # <<>>
        /\ RowsOf(call[p].user_id)[1].plan = "PRO"
        /\ users[call[p].key].plan_type = "FREE"
        /\ users[call[p].key].credits = 0

\* the credit allotment does not decrease as the tier rises
AllotmentMonotone ==
    \A i, j \in DOMAIN Tiers :
        i < j => get_credits_for_plan(Tiers[i]) <= get_credits_for_plan(Tiers[j])

\* C23 (as claimed).  Initial record state: the step in which signup creates
\* the record of a key leaves the key active, with zero demo usage and with
\* the credit allotment of its tier, and the allotment does not decrease as
\* the tier rises.
InitialRecordState ==
    [][ \A p \in Procs :
          (pc[p] = "signup_insert" /\ call'[p].update = "ok")
          => /\ api_keys'[call[p].key] # NoRow
             /\ api_keys'[call[p].key].active
             /\ api_keys'[call[p].key].demos_used = 0
             /\ users'[call[p].key] # NoRow
             /\ users'[call[p].key].credits
                    = get_credits_for_plan(call[p].user_tier)
             /\ AllotmentMonotone ]_vars

\* C24 (as claimed).  Idempotent provisioning: a handled upgrade or cancel
\* event leaves the plan and the credits the event names, so that the same
\* event delivered again leaves the same state; and however often the
\* subscribe event of a user is delivered, the store holds at most one
\* mapping and one key record for that user.
IdempotentProvisioning ==
    /\ \A p \in Procs :
            ( /\ pc[p] = "idle"
              /\ call[p].op \in {"upgrade", "cancel"}
              /\ call[p].update = "ok" )
            => /\ users[call[p].key].plan_type = call[p].plan
               /\ users[call[p].key].credits = call[p].credits
    /\ \A u \in UserIds : Len(RowsOf(u)) <= 1

\* the step is a step of an authorization call of request p
VerifyStepOf(p) ==
    /\ call'[p].op = "verify"
    /\ call'[p] # call[p] \/ pc'[p] # pc[p] \/ outcome'[p] # outcome[p]

\* C25.  Authorization frame: a step of an authorization call, whatever its
\* outcome, creates and removes no record, changes the tier and the active
\* flag of no record, changes no field of a record other than the one of the
\* presented key, and leaves the credit ledger and the mappings alone.
AuthorizationFrame ==
    [][ \A p \in Procs :
          VerifyStepOf(p)
          => /\ \A k \in Keys :
                    /\ api_keys[k] = NoRow <=> api_keys'[k] = NoRow
                    /\ api_keys[k] # NoRow
                        => /\ api_keys'[k].tier = api_keys[k].tier
                           /\ api_keys'[k].active = api_keys[k].active
                           /\ DOMAIN api_keys'[k] = DOMAIN api_keys[k]
                    /\ k # call'[p].key => api_keys'[k] = api_keys[k]
             /\ users' = users
             /\ rapidapi_users' = rapidapi_users ]_vars

\* C25 witness: two keys have been issued, of different tiers; a call with
\* the free one has been answered in demo mode and its counter stands at 1,
\* while its tier is still free and the other record is as signup wrote it.
AuthorizationFrameWitness ==
    \E p \in Procs, k \in Keys :
        /\ Answered(p)
        /\ call[p].update = "ok"
        /\ k # call[p].key
        /\ api_keys[call[p].key] # NoRow
        /\ api_keys[call[p].key].tier = "free"
        /\ api_keys[call[p].key].demos_used = 1
        /\ api_keys[k] # NoRow
        /\ api_keys[k].tier = "pro"
        /\ api_keys[k].demos_used = 0

\* C26, in a step: the step in which the handler body of a request ends,
\* with a result, an error, the 504 of the time limit or the abort of the
\* request, changes no store record.
BodyWritesNothing ==
    \A p \in Procs :
        (~Finished(p) /\ Finished(p)')
        => /\ api_keys' = api_keys
           /\ users' = users
           /\ demo_usage' = demo_usage

\* C26, in a state: when a request was authorized and its usage mutation
\* committed, and its transform failed or timed out or the request was
\* aborted, the store holds the charge, and the demo increment of a demo
\* grant: the balance is at most the balance read less 1 and the demo count
\* of the feature at least the count read plus 1 (the requests authorized
\* meanwhile have added theirs).
UsageStaysConsumed ==
    \A p \in Procs :
        ( /\ Authorized(p)
          /\ call[p].update = "ok"
          /\ Finished(p)
          /\ response[p].aborted \/ response[p].status \in {500, 504} )
        => /\ creditBalance(users, call[p].key) <= call[p].credits - 1
           /\ outcome[p].demo_mode
                => demoUsage(demo_usage, call[p].key, call[p].feature)
                     >= call[p].user_demos + 1

WebhookErrorStatuses ==
    \A p \in Procs :
        (pc[p] = "idle" /\ call[p].op \in {"subscribe", "upgrade", "cancel"})
        => /\ ~verify_rapidapi_signature(call[p].sig_valid)
                => outcome[p].status = 403 /\ call[p].update = "none"
           /\ ( /\ verify_rapidapi_signature(call[p].sig_valid)
                /\ call[p].op = "subscribe"
                /\ call[p].user_id = NoUser )
                => outcome[p].status = 400 /\ call[p].update = "none"
           /\ ( /\ verify_rapidapi_signature(call[p].sig_valid)
                /\ call[p].op \in {"upgrade", "cancel"}
                /\ call[p].fetch = "ok"
                /\ RowsOf(call[p].user_id) = <<>> )
                => outcome[p].status = 404 /\ call[p].update = "none"

\* C28 (as claimed).  Demo count read fails closed: the step in which the
\* select of get_demo_count raises, called on its own or from increment_demo,
\* does not report fewer demos than the store records for the key and
\* feature.
DemoCountReadFailsClosed ==
    [][ \A p \in Procs :
          ( /\ pc[p] = "idle"
            /\ call'[p] # call[p]
            /\ call'[p].op \in {"get_demo_count", "increment_demo"}
            /\ call'[p].fetch = "failed" )
          => LET rows == UsageRows(demo_usage, call'[p].key, call'[p].feature)
                 told == IF call'[p].op = "get_demo_count"
                         THEN call'[p].returned ELSE call'[p].current
             IN  rows # <<>> => told >= rows[1].count ]_vars

\* C29 (as claimed).  Subscribe is all-or-nothing: when a subscribe event
\* that reached the store has been handled, the key it generated has an
\* account record in users exactly when a mapping in rapidapi_users points
\* to it.
SubscribeAllOrNothing ==
    \A p \in Procs :
        (pc[p] = "idle" /\ call[p].op = "subscribe" /\ call[p].key # NoKey)
        => ( users[call[p].key] # NoRow
             <=> \E i \in DOMAIN rapidapi_users :
                    rapidapi_users[i].api_key = call[p].key )

\* C30 (as claimed).  Demo usage rows: where the table holds at most one row
\* for a key and feature, the step in which an increment_demo call whose read
\* and write met no store error writes leaves at most one row for them and
\* raises the count get_demo_count returns for them by exactly 1, so that k
\* such calls on an empty table leave one row and the count k.
DemoUsageRows ==
    [][ \A p \in Procs :
          ( /\ pc[p] = "increment_write"
            /\ call[p].fetch = "ok"
            /\ call'[p].update = "ok"
            /\ Len(UsageRows(demo_usage, call[p].key, call[p].feature)) <= 1 )
          => /\ Len(UsageRows(demo_usage', call[p].key, call[p].feature)) <= 1
             /\ get_demo_count(demo_usage', call[p].key, call[p].feature, TRUE)
                  = get_demo_count(demo_usage, call[p].key, call[p].feature, TRUE) + 1
      ]_vars
====
